---- MODULE Spec2Model ----
(***************************************************************************)
(* A model of the Tetra3D Blender add-on (src/tetra3d.py): the game        *)
(* property list operators, the persisted export settings, and the export  *)
(* flow (resolve path, annotate, call the glTF exporter, clean up).        *)
(*                                                                         *)
(* Host (bpy) calls are modelled by what Blender does for them:            *)
(*   - an ID-property collection stores its items in an array owned by the *)
(*     object; add() appends a default item, remove(i) and move(i, j) do   *)
(*     nothing when an index is out of range, [name] and `in` find the     *)
(*     first item with that name;                                          *)
(*   - a property declared with get=/set= reads through the getter only,   *)
(*     so the declared default= is never consulted;                        *)
(*   - os.path.splitext is the POSIX one.                                  *)
(* Python indices are 0-based, TLA+ sequences 1-based: item i of the code  *)
(* is element i + 1 of the sequence.                                       *)
(***************************************************************************)
EXTENDS Integers, Sequences, FiniteSets, TLC

\* ------------------------------------------------------------------------
\* Bounds of the model
\* ------------------------------------------------------------------------

\* the longest game property list explored
MaxLen == 2

\* the number of exporter calls explored
MaxCalls == 2

\* the longest path the path derivation is tried on, besides the examples
MaxPathLen == 4

\* ------------------------------------------------------------------------
\* The document
\* ------------------------------------------------------------------------

\* bpy.data.objects, in the order the host iterates them (by name)
ObjOrder == <<"Cube", "Empty">>

Objs == {ObjOrder[i] : i \in 1..Len(ObjOrder)}

VARIABLES
    props,          \* props[o]: o.t3dGameProperties__, a sequence of items
    last,           \* the operator or setter that ran last, and its outcome
    scene0,         \* the custom properties of bpy.data.scenes[0]: <<>> when
                    \* the key is absent, <<v>> when it holds v
    blendFilepath,  \* bpy.context.blend_data.filepath, "" until first saved
    instancing,     \* instancing[o]: o.instance_type, o.instance_collection
    objFields,      \* objFields[o]: o["t3dInstanceCollection__"], <<>> or <<v>>
    actFields,      \* actFields[a]: a["t3dMarkers__"], <<>> or <<v>>
    pc,             \* where export() stands: idle, annotate, delegate, cleanup
    caller,         \* who called export(): operator, save (none before any)
    newPath,        \* export()'s local newPath
    gltfCalls,      \* the calls of bpy.ops.export_scene.gltf so far
    callsBefore,    \* Len(gltfCalls) when the running export() was entered
    result,         \* how the last export() ended: True, False, an exception
    report,         \* the last self.report of EXPORT_OT_tetra3d
    fieldsBefore,   \* objFields and actFields as they were when export() was
                    \* last entered
    handlers        \* bpy.app.handlers.save_post

listVars == <<props, last>>

exportVars == <<objFields, actFields, pc, caller, newPath, gltfCalls, callsBefore, result, report, fieldsBefore>>

vars == <<props, last, scene0, blendFilepath, instancing, objFields, actFields, pc, caller, newPath, gltfCalls, callsBefore, result, report, fieldsBefore, handlers>>

\* everything but the game property lists and `last`
otherVars == <<scene0, blendFilepath, instancing, objFields, actFields, pc, caller, newPath, gltfCalls, callsBefore, result, report, fieldsBefore, handlers>>

\* ------------------------------------------------------------------------
\* t3dGamePropertyItem__ and the host collection
\* ------------------------------------------------------------------------

\* a new item: every field at the default of its bpy.props declaration
DefaultProp == [name |-> "New Property", valueType |-> "bool", valueBool |-> FALSE, valueInt |-> 0, valueFloat |-> 0, valueString |-> "", valueReference |-> "None", valueReferenceScene |-> "None"]

\* the values the panel's fields are edited to: the default item, an item
\* that differs from it in every field, and one that shares the latter's name
EditedProps == {DefaultProp, [name |-> "hp", valueType |-> "int", valueBool |-> TRUE, valueInt |-> 7, valueFloat |-> 3, valueString |-> "x", valueReference |-> "Cube", valueReferenceScene |-> "Scene"], [name |-> "hp", valueType |-> "bool", valueBool |-> FALSE, valueInt |-> 0, valueFloat |-> 0, valueString |-> "", valueReference |-> "None", valueReferenceScene |-> "None"]}

\* collection.add(): append a default item (the new item is the last one)
CollAdd(L) == Append(L, DefaultProp)

\* collection.remove(key): drop item key; nothing when key is out of range
CollRemove(L, key) == IF key >= 0 /\ key < Len(L) THEN [j \in 1..(Len(L) - 1) |-> IF j <= key THEN L[j] ELSE L[j + 1]] ELSE L

\* a move whose target index wraps around the ends of the list
CollMoveWrapped(L, key, pos) ==
    IF key >= 0 /\ key < Len(L)
    THEN LET at == (pos + Len(L)) % Len(L)
         IN  [j \in 1..Len(L) |-> IF j = key + 1 THEN L[at + 1] ELSE IF j = at + 1 THEN L[key + 1] ELSE L[j]]
    ELSE L

\* collection.move(key, pos): take item key out and put it back at pos;
\* nothing when either index is out of range or they are equal
CollMove(L, key, pos) ==
    IF key >= 0 /\ key < Len(L) /\ pos >= 0 /\ pos < Len(L) /\ key # pos
    THEN LET rest == CollRemove(L, key)
         IN  [j \in 1..Len(L) |-> IF j < pos + 1 THEN rest[j] ELSE IF j = pos + 1 THEN L[key + 1] ELSE rest[j - 1]]
    ELSE L

\* a lookup by name that never finds anything
CollFindNothing(L, name) == -1

\* collection.find(name): 0-based index of the first item named so, or -1;
\* `name in collection` is CollFind # -1, collection[name] is that item
CollFind(L, name) ==
    IF \E j \in 1..Len(L) : L[j].name = name
    THEN (CHOOSE j \in 1..Len(L) : L[j].name = name /\ \A h \in 1..(j - 1) : L[h].name # name) - 1
    ELSE -1

\* collection[index]: a negative index counts from the end; IndexError when
\* the item does not exist (CollHas is false)
CollHas(L, index) == (IF index < 0 THEN index + Len(L) ELSE index) \in 0..(Len(L) - 1)

CollGet(L, index) == L[(IF index < 0 THEN index + Len(L) ELSE index) + 1]

\* copyProp with a field forgotten
copyPropNoScene(fromProp, toProp) == [toProp EXCEPT !.name = fromProp.name, !.valueType = fromProp.valueType, !.valueBool = fromProp.valueBool, !.valueInt = fromProp.valueInt, !.valueFloat = fromProp.valueFloat, !.valueString = fromProp.valueString, !.valueReference = fromProp.valueReference]

\* copyProp(fromProp, toProp): toProp after the eight field assignments
copyProp(fromProp, toProp) == [toProp EXCEPT !.name = fromProp.name, !.valueType = fromProp.valueType, !.valueBool = fromProp.valueBool, !.valueInt = fromProp.valueInt, !.valueFloat = fromProp.valueFloat, !.valueString = fromProp.valueString, !.valueReference = fromProp.valueReference, !.valueReferenceScene = fromProp.valueReferenceScene]

\* the record kept in `last`
Ran(op, outcome, case) == [op |-> op, result |-> outcome, case |-> case]

\* what move(key, pos) did, for `last`
MoveCase(L, key, pos) == IF ~(key >= 0 /\ key < Len(L)) THEN "outside" ELSE IF pos >= 0 /\ pos < Len(L) THEN "moved" ELSE "clamped"

\* the indices an operator is called with: the panel passes those of the
\* list, a script may pass any
IndexInputs == (-1)..MaxLen

\* ------------------------------------------------------------------------
\* The property list operators
\* ------------------------------------------------------------------------

\* the panel's field bindings: the user edits item k of o
EditProp(o, k, p) ==
    /\ k \in 1..Len(props[o])
    /\ props' = [props EXCEPT ![o][k] = p]
    /\ last' = Ran("Edit", "FINISHED", {})
    /\ UNCHANGED otherVars

\* OBJECT_OT_tetra3dAddProp.execute
AddProp(o) ==
    /\ Len(props[o]) < MaxLen
    /\ props' = [props EXCEPT ![o] = CollAdd(@)]
    /\ last' = Ran("Add", "FINISHED", {})
    /\ UNCHANGED otherVars

\* OBJECT_OT_tetra3dDeleteProp.execute
DeleteProp(o, index) ==
    /\ props' = [props EXCEPT ![o] = CollRemove(@, index)]
    /\ last' = Ran("Delete", "FINISHED", {IF index >= 0 /\ index < Len(props[o]) THEN "removed" ELSE "outside"})
    /\ UNCHANGED otherVars

\* OBJECT_OT_tetra3dReorderProps.execute
ReorderProps(o, index, moveUp) ==
    /\ props' = [props EXCEPT ![o] = IF moveUp THEN CollMove(@, index, index - 1) ELSE CollMove(@, index, index + 1)]
    /\ last' = Ran("Reorder", "FINISHED", {MoveCase(props[o], index, IF moveUp THEN index - 1 ELSE index + 1)} \cup (IF moveUp THEN {"up"} ELSE {}))
    /\ UNCHANGED otherVars

\* the inner loop of OBJECT_OT_tetra3dCopyProps.execute: the target, emptied
\* by clear(), after the items of source from the k-th on were added and set
RECURSIVE CopyFrom(_, _, _)
CopyFrom(source, target, k) ==
    IF k > Len(source) THEN target
    ELSE LET added == CollAdd(target)
         IN  CopyFrom(source, [added EXCEPT ![Len(added)] = copyProp(source[k], added[Len(added)])], k + 1)

\* OBJECT_OT_tetra3dCopyProps.execute: selected is context.object, sel is
\* context.selected_objects
CopyProps(selected, sel) ==
    /\ props' = [o \in Objs |-> IF o \in sel /\ o # selected THEN CopyFrom(props[selected], <<>>, 1) ELSE props[o]]
    /\ last' = Ran("CopyProps", "FINISHED", IF sel \ {selected} = {} THEN {} ELSE {"copied"})
    /\ UNCHANGED otherVars

\* one round of the loop of OBJECT_OT_tetra3dCopyOneProperty.execute: the
\* list of a target after fromProp was copied into it
CopyOneInto(fromProp, target) ==
    IF CollFind(target, fromProp.name) # -1
    THEN [target EXCEPT ![CollFind(target, fromProp.name) + 1] = copyProp(fromProp, @)]
    ELSE LET added == CollAdd(target)
         IN  [added EXCEPT ![Len(added)] = copyProp(fromProp, added[Len(added)])]

\* OBJECT_OT_tetra3dCopyOneProperty.execute; selected[index] raises IndexError
\* in the first round when index is out of range
CopyOneProperty(selected, sel, index) ==
    LET targets == sel \ {selected}
        source == props[selected]
    IN  /\ \A o \in targets : Len(props[o]) < MaxLen \/ (CollHas(source, index) /\ CollFind(props[o], CollGet(source, index).name) # -1)
        /\ UNCHANGED otherVars
        /\ IF targets # {} /\ ~CollHas(source, index)
           THEN /\ props' = props
                /\ last' = Ran("CopyOne", "IndexError", {})
           ELSE /\ props' = [o \in Objs |-> IF o \in targets THEN CopyOneInto(CollGet(source, index), props[o]) ELSE props[o]]
                /\ last' = Ran("CopyOne", "FINISHED", {IF CollFind(props[o], CollGet(source, index).name) # -1 THEN "overwrite" ELSE "append" : o \in targets})

\* OBJECT_OT_tetra3dClearProps.execute
ClearProps(sel) ==
    /\ props' = [o \in Objs |-> IF o \in sel THEN <<>> ELSE props[o]]
    /\ last' = Ran("Clear", "FINISHED", {})
    /\ UNCHANGED otherVars

\* ------------------------------------------------------------------------
\* The export settings, kept on the first scene
\* ------------------------------------------------------------------------

SettingNames == {"t3dExportOnSave__", "t3dExportFilepath__", "t3dExportFormat__", "t3dExportCameras__", "t3dExportLights__", "t3dPackTextures__"}

\* gltfExportTypes: the identifier and the number of each item
gltfExportTypes == <<[identifier |-> "GLB", number |-> 0], [identifier |-> "GLTF_SEPARATE", number |-> 1], [identifier |-> "GLTF_EMBEDDED", number |-> 2]>>

FormatIdentifiers == {gltfExportTypes[i].identifier : i \in 1..Len(gltfExportTypes)}

\* the host's conversions of an enum value between identifier and number
EnumNumber(identifier) == (CHOOSE i \in 1..Len(gltfExportTypes) : gltfExportTypes[i].identifier = identifier) - 1

EnumIdentifier(number) == gltfExportTypes[CHOOSE i \in 1..Len(gltfExportTypes) : gltfExportTypes[i].number = number].identifier

\* globalGet: the stored value, None (<<>>) when the key is absent
globalGet(propName) == scene0[propName]

\* globalSet
globalSet(propName, value) == scene0' = [scene0 EXCEPT ![propName] = <<value>>]

getExportOnSave == IF globalGet("t3dExportOnSave__") = <<>> THEN FALSE ELSE globalGet("t3dExportOnSave__")[1]

getExportFilepath == IF globalGet("t3dExportFilepath__") = <<>> THEN <<>> ELSE globalGet("t3dExportFilepath__")[1]

getExportFormat == IF globalGet("t3dExportFormat__") = <<>> THEN 0 ELSE globalGet("t3dExportFormat__")[1]

getExportCameras == IF globalGet("t3dExportCameras__") = <<>> THEN TRUE ELSE globalGet("t3dExportCameras__")[1]

getExportLights == IF globalGet("t3dExportLights__") = <<>> THEN TRUE ELSE globalGet("t3dExportLights__")[1]

getPackTextures == IF globalGet("t3dPackTextures__") = <<>> THEN FALSE ELSE globalGet("t3dPackTextures__")[1]

\* scene.<name>: what reading the property gives (an enum reads as the
\* identifier of the item whose number the getter returns)
ReadSetting(name) ==
    CASE name = "t3dExportOnSave__" -> getExportOnSave
      [] name = "t3dExportFilepath__" -> getExportFilepath
      [] name = "t3dExportFormat__" -> EnumIdentifier(getExportFormat)
      [] name = "t3dExportCameras__" -> getExportCameras
      [] name = "t3dExportLights__" -> getExportLights
      [] name = "t3dPackTextures__" -> getPackTextures

\* the default= of each declaration in register()
DeclaredDefault(name) ==
    CASE name = "t3dExportOnSave__" -> FALSE
      [] name = "t3dExportFilepath__" -> <<>>
      [] name = "t3dExportFormat__" -> "GLTF_EMBEDDED"
      [] name = "t3dExportCameras__" -> TRUE
      [] name = "t3dExportLights__" -> TRUE
      [] name = "t3dPackTextures__" -> FALSE

\* scene.<name> = value for a property whose setter is globalSet(name, value)
SetSetting(name, value) ==
    /\ pc = "idle"
    /\ globalSet(name, value)
    /\ last' = Ran(name, "FINISHED", {value})
    /\ UNCHANGED <<props, blendFilepath, instancing, exportVars, handlers>>

setExportOnSave(value) == SetSetting("t3dExportOnSave__", value)

setExportFilepath(value) == SetSetting("t3dExportFilepath__", value)

\* the host hands the setter of an enum the number of the chosen item
setExportFormat(identifier) ==
    /\ pc = "idle"
    /\ globalSet("t3dExportFormat__", EnumNumber(identifier))
    /\ last' = Ran("t3dExportFormat__", "FINISHED", {identifier})
    /\ UNCHANGED <<props, blendFilepath, instancing, exportVars, handlers>>

setExportCameras(value) == SetSetting("t3dExportCameras__", value)

setExportLights(value) == SetSetting("t3dExportLights__", value)

setPackTextures(value) == SetSetting("t3dPackTextures__", value)

\* ------------------------------------------------------------------------
\* The document export() reads
\* ------------------------------------------------------------------------

\* the collections of the document: collection.objects
CollectionObjects(c) == IF c = "Props" THEN <<"Crate", "Lid", "Barrel">> ELSE IF c = "Rig" THEN <<"Bone">> ELSE <<>>

\* o.parent of the objects of the collections
ParentOf(name) == IF name = "Lid" THEN "Crate" ELSE IF name = "Bone" THEN "Armature" ELSE "None"

IsRoot(name) == ParentOf(name) = "None"

\* what an object's instancing can be set to; a collection instancer
\* whose collection was never chosen has instance_collection None
InstanceOptions == {[instance_type |-> "NONE", instance_collection |-> "None"], [instance_type |-> "NONE", instance_collection |-> "Props"], [instance_type |-> "COLLECTION", instance_collection |-> "None"], [instance_type |-> "COLLECTION", instance_collection |-> "Props"], [instance_type |-> "COLLECTION", instance_collection |-> "Rig"]}

\* bpy.data.actions in the host's order, and action.pose_markers
ActionOrder == <<"Idle", "Walk">>

Actions == {ActionOrder[i] : i \in 1..Len(ActionOrder)}

PoseMarkers(a) == IF a = "Walk" THEN <<[name |-> "step", frame |-> 48], [name |-> "land", frame |-> 60]>> ELSE <<>>

\* scene.render
SceneRender == [fps |-> 24]

\* file paths are sequences of characters
PathChars == {"/", ".", "a"}

ExampleOverride == <<"/", "x", "/", "y", "/", "s", "c", "e", "n", "e">>

ExampleBlend == <<"/", "a", "/", "b", ".", "b", "l", "e", "n", "d">>

\* ------------------------------------------------------------------------
\* export()
\* ------------------------------------------------------------------------

\* p.rfind(ch) + 1: the last position of ch in p, 0 when there is none
RFind(p, ch) == IF \E i \in 1..Len(p) : p[i] = ch THEN CHOOSE i \in 1..Len(p) : p[i] = ch /\ \A j \in (i + 1)..Len(p) : p[j] # ch ELSE 0

\* splitext that cuts at the last dot wherever it stands
splitextAnyDot(p) == IF RFind(p, ".") > 0 THEN SubSeq(p, 1, RFind(p, ".") - 1) ELSE p

\* os.path.splitext(p)[0]: p without the extension of its last component;
\* a dot belongs to an extension only when it stands after the last
\* separator with a character other than a dot between them
splitext(p) ==
    LET sepIndex == RFind(p, "/")
        dotIndex == RFind(p, ".")
    IN  IF dotIndex > sepIndex /\ \E k \in (sepIndex + 1)..(dotIndex - 1) : p[k] # "."
        THEN SubSeq(p, 1, dotIndex - 1)
        ELSE p

\* the ending chosen from scene.t3dExportFormat__
Ending(format) == IF format = "GLB" THEN <<".", "g", "l", "b">> ELSE <<".", "g", "l", "t", "f">>

\* blendPath: the override when it is not empty, else the document's path
BlendPath(docPath) == IF ReadSetting("t3dExportFilepath__") # <<>> THEN ReadSetting("t3dExportFilepath__") ELSE docPath

\* a destination check that lets everything through
NeverNoDestination(blendPath) == FALSE

\* `if blendPath == "": return False`
NoDestination(blendPath) == blendPath = <<>>

\* the beginning of export(), called by `who` with the document at docPath:
\* return False with no destination, else derive newPath and go on
ExportBegin(who, docPath) ==
    /\ caller' = who
    /\ callsBefore' = Len(gltfCalls)
    /\ fieldsBefore' = [obj |-> objFields, act |-> actFields]
    /\ UNCHANGED <<objFields, actFields, gltfCalls>>
    /\ IF NoDestination(BlendPath(docPath))
       THEN /\ pc' = "idle"
            /\ result' = "False"
            /\ newPath' = <<>>
            /\ report' = IF who = "operator" THEN "WARNING" ELSE report
       ELSE /\ pc' = "annotate"
            /\ result' = "none"
            /\ newPath' = splitext(BlendPath(docPath)) \o Ending(ReadSetting("t3dExportFormat__"))
            /\ UNCHANGED report

\* the names collected in `cloning` for object o
Cloning(o) == IF instancing[o].instance_type = "COLLECTION" THEN SelectSeq(CollectionObjects(instancing[o].instance_collection), IsRoot) ELSE <<>>

\* obj.instance_collection.objects raises AttributeError when the
\* instancer has no collection
NoCollection(o) == instancing[o].instance_type = "COLLECTION" /\ instancing[o].instance_collection = "None"

\* the position in bpy.data.objects of the first object the loop fails at,
\* one past the end when it fails at none
FirstFailure == IF \E i \in 1..Len(ObjOrder) : NoCollection(ObjOrder[i]) THEN CHOOSE i \in 1..Len(ObjOrder) : NoCollection(ObjOrder[i]) /\ \A j \in 1..(i - 1) : ~NoCollection(ObjOrder[j]) ELSE Len(ObjOrder) + 1

PositionOf(o) == CHOOSE i \in 1..Len(ObjOrder) : ObjOrder[i] = o

RECURSIVE Gcd(_, _)
Gcd(a, b) == IF b = 0 THEN a ELSE Gcd(b, a % b)

\* marker.frame / scene.render.fps, as a fraction in lowest terms
MarkerTime(frame, fps) == [num |-> frame \div Gcd(frame, fps), den |-> fps \div Gcd(frame, fps)]

\* the list `markers` built for action a
Markers(a) == [k \in 1..Len(PoseMarkers(a)) |-> [name |-> PoseMarkers(a)[k].name, time |-> MarkerTime(PoseMarkers(a)[k].frame, SceneRender.fps)]]

\* the two annotation loops of export()
Annotate ==
    /\ pc = "annotate"
    /\ objFields' = [o \in Objs |-> IF PositionOf(o) < FirstFailure /\ Len(Cloning(o)) > 0 THEN <<Cloning(o)>> ELSE objFields[o]]
    /\ IF FirstFailure <= Len(ObjOrder)
       THEN /\ pc' = "idle"
            /\ result' = "AttributeError"
            /\ newPath' = <<>>
            /\ UNCHANGED actFields
       ELSE /\ pc' = "delegate"
            /\ actFields' = [a \in Actions |-> IF Len(Markers(a)) > 0 THEN <<Markers(a)>> ELSE actFields[a]]
            /\ UNCHANGED <<result, newPath>>
    /\ UNCHANGED <<listVars, scene0, blendFilepath, instancing, caller, gltfCalls, callsBefore, report, fieldsBefore, handlers>>

\* the keyword arguments of bpy.ops.export_scene.gltf
GltfArguments == [filepath |-> newPath, export_format |-> ReadSetting("t3dExportFormat__"), export_cameras |-> ReadSetting("t3dExportCameras__"), export_lights |-> ReadSetting("t3dExportLights__"), export_keep_originals |-> ~ReadSetting("t3dPackTextures__"), export_extras |-> TRUE, export_yup |-> TRUE, export_apply |-> TRUE]

\* the call of the exporter, which returns or raises
Delegate(raises) ==
    /\ pc = "delegate"
    /\ gltfCalls' = Append(gltfCalls, GltfArguments)
    /\ IF raises
       THEN /\ pc' = "idle"
            /\ result' = "ExporterError"
            /\ newPath' = <<>>
       ELSE /\ pc' = "cleanup"
            /\ UNCHANGED <<result, newPath>>
    /\ UNCHANGED <<listVars, scene0, blendFilepath, instancing, objFields, actFields, caller, callsBefore, report, fieldsBefore, handlers>>

\* the two deleting loops of export(), and `return True`
Cleanup ==
    /\ pc = "cleanup"
    /\ objFields' = [o \in Objs |-> <<>>]
    /\ actFields' = [a \in Actions |-> <<>>]
    /\ pc' = "idle"
    /\ result' = "True"
    /\ newPath' = <<>>
    /\ report' = IF caller = "operator" THEN "INFO" ELSE report
    /\ UNCHANGED <<listVars, scene0, blendFilepath, instancing, caller, gltfCalls, callsBefore, fieldsBefore, handlers>>

\* EXPORT_OT_tetra3d.execute, up to the first step of export()
ExportOperator ==
    /\ pc = "idle"
    /\ Len(gltfCalls) < MaxCalls
    /\ ExportBegin("operator", blendFilepath)
    /\ UNCHANGED <<listVars, scene0, blendFilepath, instancing, handlers>>

\* ------------------------------------------------------------------------
\* register(), unregister() and the save hook
\* ------------------------------------------------------------------------

InSavePost == \E i \in 1..Len(handlers) : handlers[i] = "exportOnSave"

\* register(): the classes and properties, then the save_post handler
Register ==
    /\ pc = "idle"
    /\ ~InSavePost
    /\ handlers' = IF ~InSavePost THEN Append(handlers, "exportOnSave") ELSE handlers
    /\ UNCHANGED <<listVars, scene0, blendFilepath, instancing, exportVars>>

\* unregister()
Unregister ==
    /\ pc = "idle"
    /\ InSavePost
    /\ handlers' = IF InSavePost THEN SelectSeq(handlers, LAMBDA h : h # "exportOnSave") ELSE handlers
    /\ UNCHANGED <<listVars, scene0, blendFilepath, instancing, exportVars>>

\* a save hook that exports whatever the setting says
AlwaysOnSave == TRUE

\* `if globalGet("t3dExportOnSave__")` in exportOnSave
ExportOnSaveWanted == globalGet("t3dExportOnSave__") # <<>> /\ globalGet("t3dExportOnSave__")[1]

\* the document is saved at path; the host then runs the save_post handlers
SaveFile(path) ==
    /\ pc = "idle"
    /\ Len(gltfCalls) < MaxCalls
    /\ blendFilepath' = path
    /\ IF InSavePost /\ ExportOnSaveWanted
       THEN ExportBegin("save", path)
       ELSE UNCHANGED exportVars
    /\ UNCHANGED <<listVars, scene0, instancing, handlers>>

\* ------------------------------------------------------------------------
\* Specifications
\* ------------------------------------------------------------------------

NoSettings == [n \in SettingNames |-> <<>>]

\* no export has run yet
ExportIdle ==
    /\ objFields = [o \in Objs |-> <<>>]
    /\ actFields = [a \in Actions |-> <<>>]
    /\ pc = "idle"
    /\ caller = "none"
    /\ newPath = <<>>
    /\ gltfCalls = <<>>
    /\ callsBefore = 0
    /\ result = "none"
    /\ report = "none"
    /\ fieldsBefore = [obj |-> [o \in Objs |-> <<>>], act |-> [a \in Actions |-> <<>>]]

NoInstancing == [o \in Objs |-> [instance_type |-> "NONE", instance_collection |-> "None"]]

\* a new, unsaved document with the add-on's code loaded
NewDocument ==
    /\ props = [o \in Objs |-> <<>>]
    /\ last = Ran("none", "FINISHED", {})
    /\ scene0 = NoSettings
    /\ blendFilepath = <<>>
    /\ handlers = <<>>
    /\ ExportIdle

\* SpecList: the game property operators
ListInit == NewDocument /\ instancing = NoInstancing

ListNext ==
    \/ \E o \in Objs, k \in 1..MaxLen, p \in EditedProps : EditProp(o, k, p)
    \/ \E o \in Objs : AddProp(o)
    \/ \E o \in Objs, index \in IndexInputs : DeleteProp(o, index)
    \/ \E o \in Objs, index \in IndexInputs, moveUp \in BOOLEAN : ReorderProps(o, index, moveUp)
    \/ \E selected \in Objs, sel \in SUBSET Objs : CopyProps(selected, sel)
    \/ \E selected \in Objs, sel \in SUBSET Objs, index \in IndexInputs : CopyOneProperty(selected, sel, index)
    \/ \E sel \in SUBSET Objs : ClearProps(sel)

SpecList == ListInit /\ [][ListNext]_vars

\* SpecSettings: the six settings, written through their setters
SettingsInit == NewDocument /\ instancing = NoInstancing

SettingsNext ==
    \/ \E value \in BOOLEAN : setExportOnSave(value)
    \/ \E value \in {<<>>, ExampleOverride} : setExportFilepath(value)
    \/ \E identifier \in FormatIdentifiers : setExportFormat(identifier)
    \/ \E value \in BOOLEAN : setExportCameras(value)
    \/ \E value \in BOOLEAN : setExportLights(value)
    \/ \E value \in BOOLEAN : setPackTextures(value)

SpecSettings == SettingsInit /\ [][SettingsNext]_vars

\* the export operator and the steps of export()
ExportSteps ==
    \/ ExportOperator
    \/ Annotate
    \/ \E raises \in BOOLEAN : Delegate(raises)
    \/ Cleanup

\* SpecExport: the export operator on a document whose settings, save path
\* and instancers are any the user may have set up
ExportInit ==
    /\ props = [o \in Objs |-> <<>>]
    /\ last = Ran("none", "FINISHED", {})
    /\ \E fp \in {<<>>, <<<<>>>>, <<ExampleOverride>>}, fmt \in {<<>>, <<0>>, <<1>>, <<2>>}, cam \in {<<>>, <<TRUE>>, <<FALSE>>}, lig \in {<<>>, <<TRUE>>, <<FALSE>>}, pack \in {<<>>, <<TRUE>>, <<FALSE>>} :
        scene0 = [NoSettings EXCEPT !["t3dExportFilepath__"] = fp, !["t3dExportFormat__"] = fmt, !["t3dExportCameras__"] = cam, !["t3dExportLights__"] = lig, !["t3dPackTextures__"] = pack]
    /\ blendFilepath \in {<<>>, ExampleBlend}
    /\ instancing \in [Objs -> InstanceOptions]
    /\ handlers = <<>>
    /\ ExportIdle

SpecExport == ExportInit /\ [][ExportSteps]_vars

\* the paths of at most MaxPathLen characters, and the two named ones
PathInputs == UNION {[1..n -> PathChars] : n \in 0..MaxPathLen} \cup {ExampleOverride, ExampleBlend}

\* SpecPath: the export operator, with the override or the save path drawn
\* from PathInputs and any format
PathInit ==
    /\ props = [o \in Objs |-> <<>>]
    /\ last = Ran("none", "FINISHED", {})
    /\ \E p \in PathInputs, fmt \in {<<>>, <<0>>, <<1>>, <<2>>} :
        \/ /\ scene0 = [NoSettings EXCEPT !["t3dExportFilepath__"] = <<p>>, !["t3dExportFormat__"] = fmt]
           /\ blendFilepath \in {<<>>, ExampleBlend}
        \/ /\ scene0 = [NoSettings EXCEPT !["t3dExportFormat__"] = fmt]
           /\ blendFilepath = p
    /\ instancing = NoInstancing
    /\ handlers = <<>>
    /\ ExportIdle

SpecPath == PathInit /\ [][ExportSteps]_vars

\* the paths a document is saved at
SavePaths == {ExampleBlend, <<"/", "a">>}

\* SpecSave: enabling and disabling the add-on, the export-on-save setting,
\* saving the document, and the export operator
SaveInit == NewDocument /\ instancing \in [Objs -> InstanceOptions]

SaveNext ==
    \/ Register
    \/ Unregister
    \/ \E value \in BOOLEAN : setExportOnSave(value)
    \/ \E path \in SavePaths : SaveFile(path)
    \/ ExportSteps

SpecSave == SaveInit /\ [][SaveNext]_vars

\* what obj["t3dInstanceCollection__"] may hold before an export: nothing, or
\* a list of names left by the user or by an earlier export
PriorInstanceFields == {<<>>, <<<<"Old">>>>}

\* what action["t3dMarkers__"] may hold before an export
PriorMarkerFields == {<<>>, <<<<[name |-> "old", time |-> [num |-> 1, den |-> 2]]>>>>}

\* SpecRestore: the export operator on a saved document whose objects and
\* actions may already carry the two custom properties export() writes
RestoreInit ==
    /\ props = [o \in Objs |-> <<>>]
    /\ last = Ran("none", "FINISHED", {})
    /\ \E fmt \in {<<>>, <<2>>} : scene0 = [NoSettings EXCEPT !["t3dExportFormat__"] = fmt]
    /\ blendFilepath = ExampleBlend
    /\ instancing \in [Objs -> InstanceOptions]
    /\ handlers = <<>>
    /\ objFields \in [Objs -> PriorInstanceFields]
    /\ actFields \in [Actions -> PriorMarkerFields]
    /\ pc = "idle"
    /\ caller = "none"
    /\ newPath = <<>>
    /\ gltfCalls = <<>>
    /\ callsBefore = 0
    /\ result = "none"
    /\ report = "none"
    /\ fieldsBefore = [obj |-> objFields, act |-> actFields]

SpecRestore == RestoreInit /\ [][ExportSteps]_vars

\* ------------------------------------------------------------------------
\* Properties of the property list operators (checked under SpecList)
\* ------------------------------------------------------------------------

\* L with the items at 0-based indices i and j exchanged
Swapped(L, i, j) == [k \in 1..Len(L) |-> IF k = i + 1 THEN L[j + 1] ELSE IF k = j + 1 THEN L[i + 1] ELSE L[k]]

\* C3: CopyOne is an upsert by name. For every target of a CopyOne step with
\* an index inside the source list: when no item of the target has the name
\* of the source item, the target grows by one, its last item equals the
\* source item in every field and the items before it are unchanged; when
\* some item has that name, the length is unchanged, one item with that name
\* equals the source item at the position it had, and all others are
\* unchanged.
CopyOneIsUpsertByName ==
    [][last'.op = "CopyOne" => \A selected \in Objs, sel \in SUBSET Objs, index \in IndexInputs :
        (CopyOneProperty(selected, sel, index) /\ index >= 0 /\ index < Len(props[selected])) =>
            \A o \in sel \ {selected} :
                LET src == props[selected][index + 1]
                    T == props[o]
                    T2 == props'[o]
                    M == {j \in 1..Len(T) : T[j].name = src.name}
                IN  /\ last'.result = "FINISHED"
                    /\ IF M = {}
                       THEN /\ Len(T2) = Len(T) + 1
                            /\ T2[Len(T2)] = src
                            /\ \A j \in 1..Len(T) : T2[j] = T[j]
                       ELSE /\ Len(T2) = Len(T)
                            /\ \E k \in M : T2[k] = src /\ \A j \in 1..Len(T) : j # k => T2[j] = T[j]]_vars

\* C3 witness: a CopyOne has overwritten the second item of a target, whose
\* first item has another name
CopyOneOverwroteInPlace ==
    /\ last.op = "CopyOne"
    /\ last.result = "FINISHED"
    /\ last.case = {"overwrite"}
    /\ \E selected \in Objs, o \in Objs :
        /\ o # selected
        /\ Len(props[o]) = 2
        /\ \E k \in 1..Len(props[selected]) : props[o][2] = props[selected][k]
        /\ props[o][2] # DefaultProp
        /\ props[o][1].name # props[o][2].name

\* C4: after CopyAll every other selected object's list equals the active
\* object's list, item by item and field by field, whatever it held before;
\* the active object's list is unchanged; and a later edit of an item of one
\* object changes no other object's list.
CopyAllReplacesWithCopies ==
    [][/\ last'.op = "CopyProps" => \A selected \in Objs, sel \in SUBSET Objs :
            CopyProps(selected, sel) =>
                /\ props'[selected] = props[selected]
                /\ \A o \in sel \ {selected} :
                    /\ Len(props'[o]) = Len(props[selected])
                    /\ \A k \in 1..Len(props[selected]) : props'[o][k] = props[selected][k]
                /\ \A o \in Objs \ sel : props'[o] = props[o]
       /\ last'.op = "Edit" => \A o \in Objs, k \in 1..MaxLen, p \in EditedProps :
            EditProp(o, k, p) => \A x \in Objs \ {o} : props'[x] = props[x]]_vars

\* C4 witness: a CopyAll has run from a list of two different items, and
\* another object holds the same list
CopyAllCopiedTwoItems ==
    /\ last.op = "CopyProps"
    /\ last.case = {"copied"}
    /\ \E selected \in Objs, o \in Objs :
        /\ o # selected
        /\ Len(props[selected]) = 2
        /\ props[selected][1] # props[selected][2]
        /\ props[selected][2] # DefaultProp
        /\ props[o] = props[selected]

\* C7: reordering clamps at the ends. MoveUp at index 0 and MoveDown at the
\* last index leave every list unchanged; at any other index inside the
\* list the item is exchanged with its neighbour and nothing else moves;
\* no error is raised.
ReorderClampsAtTheEnds ==
    [][last'.op = "Reorder" => \A o \in Objs, index \in IndexInputs, moveUp \in BOOLEAN :
        ReorderProps(o, index, moveUp) =>
            LET L == props[o]
                atEnd == IF moveUp THEN index = 0 ELSE index = Len(L) - 1
            IN  /\ last'.result = "FINISHED"
                /\ \A x \in Objs \ {o} : props'[x] = props[x]
                /\ atEnd => props'[o] = L
                /\ (index >= 0 /\ index < Len(L) /\ ~atEnd) =>
                       props'[o] = Swapped(L, index, IF moveUp THEN index - 1 ELSE index + 1)]_vars

\* C7 witness: MoveUp ran at index 0 of a list of two different items
MovedUpAtTop ==
    /\ last.op = "Reorder"
    /\ last.case = {"clamped", "up"}
    /\ \A o \in Objs : Len(props[o]) = 2 /\ props[o][1] # props[o][2]

\* C8: Delete at an index inside the list yields the list without that
\* item, one shorter and otherwise in order, and Delete at an index outside
\* the list fails with an index error.
DeleteRemovesOrFails ==
    [][last'.op = "Delete" => \A o \in Objs, index \in IndexInputs :
        DeleteProp(o, index) =>
            LET L == props[o]
            IN  IF index >= 0 /\ index < Len(L)
                THEN /\ Len(props'[o]) = Len(L) - 1
                     /\ \A j \in 1..(Len(L) - 1) : props'[o][j] = (IF j <= index THEN L[j] ELSE L[j + 1])
                ELSE last'.result = "IndexError"]_vars

\* ------------------------------------------------------------------------
\* Properties of the export flow and of the settings
\* ------------------------------------------------------------------------

NoFieldLeft == (\A o \in Objs : objFields[o] = <<>>) /\ (\A a \in Actions : actFields[a] = <<>>)

\* every annotation export() writes for this document is in place
AllStamped ==
    /\ \A o \in Objs : Len(Cloning(o)) > 0 => objFields[o] = <<Cloning(o)>>
    /\ \A a \in Actions : Len(PoseMarkers(a)) > 0 => actFields[a] # <<>>

\* C1: once an export that resolved its destination and called the exporter
\* has ended, whether the exporter returned or raised, no object carries
\* t3dInstanceCollection__ and no action carries t3dMarkers__.
NoAnnotationLeftAfterExport == (pc = "idle" /\ result \in {"True", "ExporterError"}) => NoFieldLeft

\* C2: an export with an empty filepath override and an unsaved document
\* returns False, which the operator reports as a warning, and it writes no
\* annotation field and does not call the exporter.
NoDestinationFailsBeforeAnyWrite ==
    [][(ExportOperator /\ ReadSetting("t3dExportFilepath__") = <<>> /\ blendFilepath = <<>>) =>
        /\ pc' = "idle"
        /\ result' = "False"
        /\ report' = "WARNING"
        /\ UNCHANGED <<objFields, actFields, gltfCalls>>]_vars

\* C2 witness: the operator has failed for want of a destination on a
\* document that has an instancer to annotate; nothing was written or called
FailedWithNoDestination ==
    /\ pc = "idle"
    /\ caller = "operator"
    /\ result = "False"
    /\ report = "WARNING"
    /\ blendFilepath = <<>>
    /\ ReadSetting("t3dExportFilepath__") = <<>>
    /\ \E o \in Objs : Len(Cloning(o)) > 0
    /\ NoFieldLeft
    /\ gltfCalls = <<>>

\* position d of p starts the extension of p: a dot, with neither dot nor
\* separator after it, and before it in the same path component a character
\* that is no dot
StartsExtension(p, d) ==
    /\ p[d] = "."
    /\ \A k \in (d + 1)..Len(p) : p[k] # "." /\ p[k] # "/"
    /\ \E h \in 1..(d - 1) : p[h] # "." /\ \A k \in h..d : p[k] # "/"

\* p without its extension, if it has one
WithoutExtension(p) == IF \E d \in 1..Len(p) : StartsExtension(p, d) THEN SubSeq(p, 1, (CHOOSE d \in 1..Len(p) : StartsExtension(p, d)) - 1) ELSE p

\* the path the claim prescribes for the settings and document at hand
PrescribedPath ==
    LET override == ReadSetting("t3dExportFilepath__")
        base == IF override # <<>> THEN override ELSE blendFilepath
        format == ReadSetting("t3dExportFormat__")
    IN  WithoutExtension(base) \o (IF format = "GLB" THEN <<".", "g", "l", "b">> ELSE <<".", "g", "l", "t", "f">>)

\* C5: the output path is the filepath override when that is not empty, else
\* the document's save path, with its extension, if any, replaced by .glb
\* for GLB and by .gltf for the two glTF formats; "/x/y/scene" with GLB gives
\* "/x/y/scene.glb", no override with "/a/b.blend" and glTF-embedded gives
\* "/a/b.gltf".
OutputPathIsBaseWithNewExtension ==
    /\ pc \in {"annotate", "delegate", "cleanup"} => newPath = PrescribedPath
    /\ \A i \in 1..Len(gltfCalls) : gltfCalls[i].filepath = PrescribedPath
    /\ (pc = "annotate" /\ ReadSetting("t3dExportFilepath__") = ExampleOverride /\ ReadSetting("t3dExportFormat__") = "GLB") =>
           newPath = <<"/", "x", "/", "y", "/", "s", "c", "e", "n", "e", ".", "g", "l", "b">>
    /\ (pc = "annotate" /\ ReadSetting("t3dExportFilepath__") = <<>> /\ blendFilepath = ExampleBlend /\ ReadSetting("t3dExportFormat__") = "GLTF_EMBEDDED") =>
           newPath = <<"/", "a", "/", "b", ".", "g", "l", "t", "f">>

\* C5 witness: with no override and the document at "/a/b.blend", the
\* exporter was called with "/a/b.gltf"
ExportedBlendAsGltf ==
    /\ ReadSetting("t3dExportFilepath__") = <<>>
    /\ blendFilepath = ExampleBlend
    /\ Len(gltfCalls) > 0
    /\ gltfCalls[1].filepath = <<"/", "a", "/", "b", ".", "g", "l", "t", "f">>

\* C6: every export that resolves a destination calls the exporter exactly
\* once, when all annotations are stamped and before any is removed, with
\* export_extras, export_yup and export_apply true, the format, cameras and
\* lights settings passed as they read, and export_keep_originals the
\* negation of the pack-textures setting.
EveryExportCallsExporterOnce ==
    /\ (pc = "idle" /\ result \in {"True", "ExporterError", "AttributeError"}) => Len(gltfCalls) = callsBefore + 1
    /\ pc \in {"annotate", "delegate"} => Len(gltfCalls) = callsBefore
    /\ pc = "cleanup" => Len(gltfCalls) = callsBefore + 1
    /\ pc \in {"delegate", "cleanup"} => AllStamped
    /\ \A i \in 1..Len(gltfCalls) :
        /\ gltfCalls[i].export_extras /\ gltfCalls[i].export_yup /\ gltfCalls[i].export_apply
        /\ gltfCalls[i].export_format = ReadSetting("t3dExportFormat__")
        /\ gltfCalls[i].export_cameras = ReadSetting("t3dExportCameras__")
        /\ gltfCalls[i].export_lights = ReadSetting("t3dExportLights__")
        /\ gltfCalls[i].export_keep_originals = ~ReadSetting("t3dPackTextures__")

\* C9: a setting that was never set reads as its declared default
\* (export-on-save false, filepath "", format GLTF_EMBEDDED, cameras true,
\* lights true, pack-textures false), and a setting that was just set reads
\* as the value set. A key is absent from the scene exactly when its
\* setting was never set.
SettingsReadDefaultThenLastSet ==
    /\ \A n \in SettingNames : globalGet(n) = <<>> => ReadSetting(n) = DeclaredDefault(n)
    /\ last.op \in SettingNames => ReadSetting(last.op) \in last.case

\* C10: when the document is saved, the save hook starts export() if and
\* only if the add-on is registered and the export-on-save setting reads
\* true; otherwise the save writes no annotation and calls no exporter.
ExportOnSaveIffEnabled ==
    [][\A path \in SavePaths : SaveFile(path) =>
        IF InSavePost /\ ReadSetting("t3dExportOnSave__")
        THEN pc' = "annotate" /\ caller' = "save" /\ callsBefore' = Len(gltfCalls)
        ELSE UNCHANGED <<objFields, actFields, gltfCalls, pc, result>>]_vars

\* C10 witness: an export started by a save has run to its end, exporter
\* called, on a document that has an instancer to annotate
ExportedOnSave ==
    /\ caller = "save"
    /\ pc = "idle"
    /\ result = "True"
    /\ Len(gltfCalls) = callsBefore + 1
    /\ InSavePost
    /\ ReadSetting("t3dExportOnSave__")
    /\ \E o \in Objs : Len(Cloning(o)) > 0

\* C11: when export() has returned True, every object's
\* t3dInstanceCollection__ and every action's t3dMarkers__ is present or
\* absent, and holds the value, exactly as when that export() was entered,
\* also where the field was there before the export.
SuccessfulExportRestoresDocument ==
    (pc = "idle" /\ result = "True") => (objFields = fieldsBefore.obj /\ actFields = fieldsBefore.act)

\* the parentless objects of the collection object o instances
ParentlessOf(o) == {n \in {CollectionObjects(instancing[o].instance_collection)[i] : i \in 1..Len(CollectionObjects(instancing[o].instance_collection))} : ParentOf(n) = "None"}

\* C12: when the exporter is invoked, an object carries
\* t3dInstanceCollection__ if and only if it instances a collection that has
\* a parentless object, and the value lists exactly the names of those
\* objects; an action carries t3dMarkers__ if and only if it has a pose
\* marker, and the value has one {name, time} pair per marker with
\* time = frame / fps.
AnnotationsAtExporterCall ==
    pc = "delegate" =>
        /\ \A o \in Objs :
            /\ objFields[o] # <<>> <=> (instancing[o].instance_type = "COLLECTION" /\ ParentlessOf(o) # {})
            /\ objFields[o] # <<>> =>
                /\ {objFields[o][1][i] : i \in 1..Len(objFields[o][1])} = ParentlessOf(o)
                /\ Len(objFields[o][1]) = Cardinality(ParentlessOf(o))
        /\ \A a \in Actions :
            /\ actFields[a] # <<>> <=> Len(PoseMarkers(a)) > 0
            /\ actFields[a] # <<>> =>
                /\ Len(actFields[a][1]) = Len(PoseMarkers(a))
                /\ \A k \in 1..Len(PoseMarkers(a)) :
                    /\ actFields[a][1][k].name = PoseMarkers(a)[k].name
                    /\ actFields[a][1][k].time.num * SceneRender.fps = PoseMarkers(a)[k].frame * actFields[a][1][k].time.den

====
